---------------------------- MODULE Spec2Model ----------------------------
(***************************************************************************)
(* A model of moonai-server.py: the /api/chat request router (keyword      *)
(* classification, the Gemini/Groq alternation with a single fallback),    *)
(* the in-memory conversation store, and the GET and DELETE handlers of    *)
(* /api/conversation/<id>.                                                 *)
(*                                                                         *)
(* A Python str is a sequence of chunks (strings).  A text the classifier  *)
(* scans is chunked per character, so that lower(), strip() and the        *)
(* substring test `keyword in lower` are computed as Python computes them; *)
(* a literal the program only copies is a single chunk.                    *)
(*                                                                         *)
(* A Python dict is a function whose DOMAIN is its set of keys.  A Python  *)
(* list is an object of the heap, named by a reference: two names of one   *)
(* list see each other's append.                                           *)
(***************************************************************************)
EXTENDS Naturals, Sequences, FiniteSets, TLC

VARIABLES
    conversations,      \* dict: conversation id -> reference of its message list
    conversation_turn,  \* dict: conversation id -> BOOLEAN (TRUE = Gemini next)
    heap,               \* reference -> the list object's content
    google_api_key,     \* startup configuration: BOOLEAN (key present)
    groq_client,        \* startup configuration: BOOLEAN (client built)
    req,                \* per worker thread: the chat request it is handling
    resp,               \* the response to the request received last (if sent)
    chainCalls,         \* history variable: per id, 0 = no chat reached the
                        \* provider chain since the id was last deleted (or the
                        \* start), 1 = an odd number of them did, 2 = an even one
    faults,             \* history variable: upstream faults injected so far
    used,               \* history variable: the ids clients named in chat requests
    clock               \* datetime.now(), in milliseconds since the start

vars == << conversations, conversation_turn, heap, google_api_key, groq_client,
           req, resp, chainCalls, faults, used, clock >>

----------------------------------------------------------------------------
(* Keyword lists *)

\* CODE_KEYWORDS (src/moonai-server.py lines 29-42), each keyword as its sequence of characters
CODE_KEYWORDS ==
    { <<"c","o","d","e">>,
      <<"s","y","n","t","a","x">>,
      <<"s","c","r","i","p","t">>,
      <<"p","r","o","g","r","a","m">>,
      <<"f","u","n","c","t","i","o","n">>,
      <<"e","x","a","m","p","l","e">>,
      <<"s","n","i","p","p","e","t">>,
      <<"h","o","w"," ","t","o"," ","c","o","d","e">>,
      <<"h","o","w"," ","t","o"," ","w","r","i","t","e">>,
      <<"s","h","o","w"," ","m","e"," ","h","o","w">>,
      <<"s","h","o","w"," ","m","e"," ","a"," ","e","x","a","m","p","l","e">>,
      <<"s","h","o","w"," ","m","e"," ","a"," ","s","y","n","t","a","x">>,
      <<"s","h","o","w"," ","m","e"," ","a"," ","c","o","d","e">>,
      <<"s","h","o","w"," ","m","e"," ","a"," ","s","c","r","i","p","t">>,
      <<"s","h","o","w"," ","m","e"," ","a"," ","f","u","n","c","t","i","o","n">>,
      <<"w","r","i","t","e"," ","a">>,
      <<"w","r","i","t","e"," ","m","e"," ","a">>,
      <<"w","r","i","t","e"," ","m","e"," ","t","h","e">>,
      <<"g","i","v","e"," ","m","e"," ","a"," ","c","o","d","e">>,
      <<"g","i","v","e"," ","m","e"," ","a"," ","s","y","n","t","a","x">>,
      <<"g","i","v","e"," ","m","e"," ","a"," ","s","c","r","i","p","t">>,
      <<"g","i","v","e"," ","m","e"," ","a","n"," ","e","x","a","m","p","l","e">>,
      <<"g","i","v","e"," ","m","e"," ","a"," ","f","u","n","c","t","i","o","n">>,
      <<"p","r","i","n","t"," ","h","e","l","l","o">>,
      <<"h","e","l","l","o"," ","w","o","r","l","d">>,
      <<"a","l","g","o","r","i","t","h","m">>,
      <<"p","s","e","u","d","o","c","o","d","e">>,
      <<"h","o","w"," ","d","o"," ","i">>,
      <<"h","o","w"," ","t","o"," ","m","a","k","e"," ","a">>,
      <<"h","o","w"," ","t","o"," ","b","u","i","l","d"," ","a">>,
      <<"t","u","t","o","r","i","a","l">>,
      <<"e","x","p","l","a","i","n"," ","h","o","w">>,
      <<"s","h","o","w"," ","m","e"," ","h","o","w"," ","t","o">>,
      <<"l","o","o","p">>,
      <<"a","r","r","a","y">>,
      <<"s","t","r","i","n","g">>,
      <<"i","n","t","e","g","e","r">>,
      <<"v","a","r","i","a","b","l","e">>,
      <<"c","l","a","s","s">>,
      <<"o","b","j","e","c","t">>,
      <<"m","e","t","h","o","d">>,
      <<"i","m","p","o","r","t">>,
      <<"l","i","b","r","a","r","y">> }

\* IMAGE_KEYWORDS (src/moonai-server.py lines 45-82), each keyword as its sequence of characters
IMAGE_KEYWORDS ==
    { <<"/","i","m","a","g","e">>,
      <<"/","i","m","g">>,
      <<"/","i","m","a","g","i","n","e">>,
      <<"/","d","r","a","w">>,
      <<"/","p","a","i","n","t">>,
      <<"/","g","e","n","e","r","a","t","e">>,
      <<"g","e","n","e","r","a","t","e"," ","i","m","a","g","e">>,
      <<"g","e","n","e","r","a","t","e"," ","a"," ","i","m","a","g","e">>,
      <<"g","e","n","e","r","a","t","e"," ","a","n"," ","i","m","a","g","e">>,
      <<"g","e","n","e","r","a","t","e"," ","m","e">>,
      <<"g","e","n","e","r","a","t","e"," ","a"," ","p","h","o","t","o">>,
      <<"g","e","n","e","r","a","t","e"," ","a"," ","p","i","c","t","u","r","e">>,
      <<"g","e","n","e","r","a","t","e"," ","a"," ","d","r","a","w","i","n","g">>,
      <<"g","e","n","e","r","a","t","e"," ","a"," ","i","l","l","u","s","t","r","a","t","i","o","n">>,
      <<"c","r","e","a","t","e"," ","i","m","a","g","e">>,
      <<"c","r","e","a","t","e"," ","a"," ","i","m","a","g","e">>,
      <<"c","r","e","a","t","e"," ","a","n"," ","i","m","a","g","e">>,
      <<"c","r","e","a","t","e"," ","m","e">>,
      <<"c","r","e","a","t","e"," ","a"," ","p","h","o","t","o">>,
      <<"c","r","e","a","t","e"," ","a"," ","p","i","c","t","u","r","e">>,
      <<"c","r","e","a","t","e"," ","a"," ","d","r","a","w","i","n","g">>,
      <<"c","r","e","a","t","e"," ","a"," ","i","l","l","u","s","t","r","a","t","i","o","n">>,
      <<"m","a","k","e"," ","i","m","a","g","e">>,
      <<"m","a","k","e"," ","a"," ","i","m","a","g","e">>,
      <<"m","a","k","e"," ","a","n"," ","i","m","a","g","e">>,
      <<"m","a","k","e"," ","m","e">>,
      <<"m","a","k","e"," ","a"," ","p","h","o","t","o">>,
      <<"m","a","k","e"," ","a"," ","p","i","c","t","u","r","e">>,
      <<"m","a","k","e"," ","a"," ","d","r","a","w","i","n","g">>,
      <<"m","a","k","e"," ","a"," ","i","l","l","u","s","t","r","a","t","i","o","n">>,
      <<"d","r","a","w">>,
      <<"d","r","a","w"," ","m","e">>,
      <<"d","r","a","w"," ","a">>,
      <<"d","r","a","w"," ","a","n">>,
      <<"d","r","a","w"," ","s","o","m","e","t","h","i","n","g">>,
      <<"p","a","i","n","t">>,
      <<"p","a","i","n","t"," ","m","e">>,
      <<"p","a","i","n","t"," ","a">>,
      <<"p","a","i","n","t"," ","a","n">>,
      <<"s","h","o","w"," ","m","e"," ","a">>,
      <<"s","h","o","w"," ","m","e"," ","a","n">>,
      <<"s","h","o","w"," ","m","e"," ","i","m","a","g","e">>,
      <<"s","h","o","w"," ","m","e"," ","p","i","c","t","u","r","e">>,
      <<"r","e","n","d","e","r">>,
      <<"r","e","n","d","e","r"," ","m","e">>,
      <<"r","e","n","d","e","r"," ","a">>,
      <<"r","e","n","d","e","r"," ","a","n">>,
      <<"i","m","a","g","e"," ","o","f">>,
      <<"p","i","c","t","u","r","e"," ","o","f">>,
      <<"p","h","o","t","o"," ","o","f">>,
      <<"i","l","l","u","s","t","r","a","t","i","o","n"," ","o","f">>,
      <<"d","r","a","w","i","n","g"," ","o","f">>,
      <<"p","a","i","n","t","i","n","g"," ","o","f">>,
      <<"s","k","e","t","c","h"," ","o","f">>,
      <<"g","e","n","e","r","a","t","e"," ","p","i","c","t","u","r","e">>,
      <<"c","r","e","a","t","e"," ","p","i","c","t","u","r","e">>,
      <<"m","a","k","e"," ","p","i","c","t","u","r","e">>,
      <<"g","e","n","e","r","a","t","e"," ","p","h","o","t","o">>,
      <<"c","r","e","a","t","e"," ","p","h","o","t","o">>,
      <<"m","a","k","e"," ","p","h","o","t","o">>,
      <<"c","a","n"," ","y","o","u"," ","d","r","a","w">>,
      <<"c","a","n"," ","y","o","u"," ","p","a","i","n","t">>,
      <<"c","a","n"," ","y","o","u"," ","g","e","n","e","r","a","t","e">>,
      <<"c","a","n"," ","y","o","u"," ","c","r","e","a","t","e"," ","a"," ","i","m","a","g","e">>,
      <<"c","a","n"," ","y","o","u"," ","m","a","k","e"," ","a"," ","i","m","a","g","e">>,
      <<"c","a","n"," ","y","o","u"," ","c","r","e","a","t","e"," ","a","n"," ","i","m","a","g","e">>,
      <<"c","a","n"," ","y","o","u"," ","m","a","k","e"," ","a","n"," ","i","m","a","g","e">>,
      <<"c","a","n"," ","y","o","u"," ","s","h","o","w"," ","m","e"," ","a"," ","p","i","c","t","u","r","e">>,
      <<"c","a","n"," ","y","o","u"," ","s","h","o","w"," ","m","e"," ","a","n"," ","i","m","a","g","e">>,
      <<"v","i","s","u","a","l","i","z","e">>,
      <<"v","i","s","u","a","l","i","s","e">>,
      <<"d","e","s","i","g","n"," ","m","e">>,
      <<"d","e","s","i","g","n"," ","a">>,
      <<"p","r","o","d","u","c","e"," ","a","n"," ","i","m","a","g","e">>,
      <<"p","r","o","d","u","c","e"," ","a"," ","p","i","c","t","u","r","e">> }

\* CREATOR_KEYWORDS (src/moonai-server.py lines 85-118), each keyword as its sequence of characters
CREATOR_KEYWORDS ==
    { <<"w","h","o"," ","m","a","d","e"," ","y","o","u">>,
      <<"w","h","o"," ","m","a","d","e"," ","u">>,
      <<"w","h","o"," ","m","a","d","e"," ","t","h","i","s">>,
      <<"w","h","o"," ","c","r","e","a","t","e","d"," ","y","o","u">>,
      <<"w","h","o"," ","c","r","e","a","t","e","d"," ","u">>,
      <<"w","h","o"," ","c","r","e","a","t","e","d"," ","t","h","i","s">>,
      <<"w","h","o"," ","b","u","i","l","t"," ","y","o","u">>,
      <<"w","h","o"," ","b","u","i","l","t"," ","u">>,
      <<"w","h","o"," ","b","u","i","l","t"," ","t","h","i","s">>,
      <<"w","h","o"," ","d","e","s","i","g","n","e","d"," ","y","o","u">>,
      <<"w","h","o"," ","d","e","s","i","g","n","e","d"," ","u">>,
      <<"w","h","o"," ","d","e","s","i","g","n","e","d"," ","t","h","i","s">>,
      <<"w","h","o"," ","d","e","v","e","l","o","p","e","d"," ","y","o","u">>,
      <<"w","h","o"," ","d","e","v","e","l","o","p","e","d"," ","u">>,
      <<"w","h","o"," ","d","e","v","e","l","o","p","e","d"," ","t","h","i","s">>,
      <<"w","h","o"," ","c","o","d","e","d"," ","y","o","u">>,
      <<"w","h","o"," ","c","o","d","e","d"," ","u">>,
      <<"w","h","o"," ","c","o","d","e","d"," ","t","h","i","s">>,
      <<"w","h","o"," ","p","r","o","g","r","a","m","m","e","d"," ","y","o","u">>,
      <<"w","h","o"," ","p","r","o","g","r","a","m","m","e","d"," ","u">>,
      <<"w","h","o"," ","p","r","o","g","r","a","m","m","e","d"," ","t","h","i","s">>,
      <<"w","h","o"," ","w","r","o","t","e"," ","y","o","u">>,
      <<"w","h","o"," ","w","r","o","t","e"," ","u">>,
      <<"w","h","o"," ","m","a","d","e"," ","u"," ","b","r","o">>,
      <<"w","h","o"," ","i","s"," ","y","o","u","r"," ","c","r","e","a","t","o","r">>,
      <<"w","h","o"," ","i","s"," ","y","o","u","r"," ","d","e","v","e","l","o","p","e","r">>,
      <<"w","h","o"," ","i","s"," ","y","o","u","r"," ","m","a","k","e","r">>,
      <<"w","h","o"," ","i","s"," ","y","o","u","r"," ","o","w","n","e","r">>,
      <<"w","h","o"," ","i","s"," ","y","o","u","r"," ","a","u","t","h","o","r">>,
      <<"w","h","o"," ","i","s"," ","y","o","u","r"," ","p","r","o","g","r","a","m","m","e","r">>,
      <<"y","o","u","r"," ","c","r","e","a","t","o","r">>,
      <<"y","o","u","r"," ","d","e","v","e","l","o","p","e","r">>,
      <<"y","o","u","r"," ","m","a","k","e","r">>,
      <<"y","o","u","r"," ","a","u","t","h","o","r">>,
      <<"y","o","u","r"," ","o","w","n","e","r">>,
      <<"y","o","u","r"," ","p","r","o","g","r","a","m","m","e","r">>,
      <<"w","h","o"," ","a","r","e"," ","y","o","u">>,
      <<"w","h","o"," ","r"," ","u">>,
      <<"w","h","o"," ","r","u">>,
      <<"w","h","a","t"," ","a","r","e"," ","y","o","u">>,
      <<"w","h","a","t"," ","r"," ","u">>,
      <<"w","h","a","t"," ","i","s"," ","m","o","o","n","a","i">>,
      <<"w","h","a","t"," ","i","s"," ","m","o","o","n"," ","a","i">>,
      <<"t","e","l","l"," ","m","e"," ","a","b","o","u","t"," ","y","o","u","r","s","e","l","f">>,
      <<"t","e","l","l"," ","m","e"," ","a","b","o","u","t"," ","y","o","u">>,
      <<"a","b","o","u","t"," ","y","o","u">>,
      <<"a","b","o","u","t"," ","y","o","u","r","s","e","l","f">>,
      <<"i","n","t","r","o","d","u","c","e"," ","y","o","u","r","s","e","l","f">>,
      <<"i","n","t","r","o","d","u","c","e"," ","u","r","s","e","l","f">>,
      <<"a","r","e"," ","y","o","u"," ","a","i">>,
      <<"a","r","e"," ","y","o","u"," ","a"," ","b","o","t">>,
      <<"a","r","e"," ","y","o","u"," ","a"," ","r","o","b","o","t">>,
      <<"a","r","e"," ","y","o","u"," ","c","h","a","t","g","p","t">>,
      <<"a","r","e"," ","y","o","u"," ","g","e","m","i","n","i">>,
      <<"a","r","e"," ","y","o","u"," ","g","p","t">>,
      <<"m","a","d","e"," ","b","y"," ","w","h","o">>,
      <<"c","r","e","a","t","e","d"," ","b","y"," ","w","h","o">>,
      <<"b","u","i","l","t"," ","b","y"," ","w","h","o">>,
      <<"d","e","v","e","l","o","p","e","d"," ","b","y"," ","w","h","o">>,
      <<"c","o","d","e","d"," ","b","y"," ","w","h","o">>,
      <<"w","h","e","r","e"," ","a","r","e"," ","y","o","u"," ","f","r","o","m">>,
      <<"w","h","e","r","e"," ","d","o"," ","y","o","u"," ","c","o","m","e"," ","f","r","o","m">>,
      <<"w","h","a","t"," ","i","s"," ","y","o","u","r"," ","o","r","i","g","i","n">>,
      <<"w","h","a","t","s"," ","y","o","u","r"," ","o","r","i","g","i","n">> }

\* MOONLOST_KEYWORDS (src/moonai-server.py lines 121-131), each keyword as its sequence of characters
MOONLOST_KEYWORDS ==
    { <<"w","h","o"," ","i","s"," ","m","o","o","n","l","o","s","t">>,
      <<"w","h","o"," ","i","s"," ","m","o","o","n"," ","l","o","s","t">>,
      <<"m","o","o","n","l","o","s","t"," ","w","h","o">>,
      <<"t","e","l","l"," ","m","e"," ","a","b","o","u","t"," ","m","o","o","n","l","o","s","t">>,
      <<"t","e","l","l"," ","m","e"," ","a","b","o","u","t"," ","m","o","o","n"," ","l","o","s","t">>,
      <<"w","h","a","t"," ","i","s"," ","m","o","o","n","l","o","s","t">>,
      <<"w","h","a","t"," ","i","s"," ","m","o","o","n"," ","l","o","s","t">>,
      <<"m","o","o","n","l","o","s","t"," ","i","n","f","o">>,
      <<"m","o","o","n","l","o","s","t"," ","i","n","f","o","r","m","a","t","i","o","n">>,
      <<"w","h","o"," ","i","s"," ","t","h","e"," ","o","w","n","e","r">>,
      <<"w","h","o"," ","i","s"," ","t","h","e"," ","c","r","e","a","t","o","r"," ","m","o","o","n","l","o","s","t">>,
      <<"a","b","o","u","t"," ","m","o","o","n","l","o","s","t">>,
      <<"m","o","o","n","l","o","s","t","?">>,
      <<"m","o","o","n","l","o","s","t"," ","d","e","v","e","l","o","p","e","r">>,
      <<"m","o","o","n","l","o","s","t"," ","c","r","e","a","t","o","r">>,
      <<"i","s"," ","m","o","o","n","l","o","s","t"," ","a"," ","p","e","r","s","o","n">>,
      <<"i","s"," ","m","o","o","n","l","o","s","t"," ","r","e","a","l">>,
      <<"w","h","o"," ","i","s"," ","m","o","o","n">> }
----------------------------------------------------------------------------
(* str.lower(), str.strip() and the substring test *)

UpperCase ==
    <<"A","B","C","D","E","F","G","H","I","J","K","L","M",
      "N","O","P","Q","R","S","T","U","V","W","X","Y","Z">>

LowerCase ==
    <<"a","b","c","d","e","f","g","h","i","j","k","l","m",
      "n","o","p","q","r","s","t","u","v","w","x","y","z">>

Whitespace == {" ", "\t", "\n", "\r"}

LowerChar(ch) ==
    IF \E i \in 1..Len(UpperCase) : UpperCase[i] = ch
    THEN LowerCase[CHOOSE i \in 1..Len(UpperCase) : UpperCase[i] = ch]
    ELSE ch

\* message.lower()
Lower(s) == [i \in 1..Len(s) |-> LowerChar(s[i])]

\* s.strip(): without its leading and trailing whitespace
Strip(s) ==
    LET inner == {i \in 1..Len(s) : s[i] \notin Whitespace}
    IN  IF inner = {} THEN <<>>
        ELSE LET first == CHOOSE i \in inner : \A j \in inner : i <= j
                 last  == CHOOSE i \in inner : \A j \in inner : j <= i
             IN  SubSeq(s, first, last)

\* keyword in s
Contains(keyword, s) ==
    \E i \in 0..Len(s) :
        /\ i + Len(keyword) <= Len(s)
        /\ SubSeq(s, i + 1, i + Len(keyword)) = keyword

\* any(keyword in lower for keyword in keywords), lower = message.lower().strip()
MatchesAny(message, keywords) ==
    LET lower == Strip(Lower(message))
    IN  \E keyword \in keywords : Contains(keyword, lower)

is_code_request(message) == MatchesAny(message, CODE_KEYWORDS)

is_image_request(message) == MatchesAny(message, IMAGE_KEYWORDS)

is_creator_request(message) == MatchesAny(message, CREATOR_KEYWORDS)

is_moonlost_request(message) == MatchesAny(message, MOONLOST_KEYWORDS)

----------------------------------------------------------------------------
(* Fixed texts of the program *)

\* chat, line 243
MESSAGE_REQUIRED == <<"Message is required">>

\* chat, line 248
IMAGE_BLOCKED_RESPONSE ==
    <<"**Image generation is not available.** I can only assist with text-based conversations. Try asking me something else!">>

\* MOONLOST_RESPONSE, lines 134-138 (its first line; the text is only copied)
MOONLOST_RESPONSE == <<"**Moonlost** - Creator & Developer of MoonAI ...">>

\* chat, line 263
CREATOR_RESPONSE == <<"I was created by **Moonlost**.">>

\* call_gemini_api, line 167
NO_GEMINI_KEY == <<"No Gemini API key configured">>

\* call_groq_api, line 203
NO_GROQ_KEY == <<"No Groq API key configured">>

\* chat, line 298: the answer to an exception raised in chat() itself
INTERNAL_SERVER_ERROR == <<"Internal server error">>

\* get_conversation, line 305
CONVERSATION_NOT_FOUND == <<"Conversation not found">>

\* delete_conversation, line 315
CONVERSATION_CLEARED == <<"Conversation cleared">>

Gemini == "Gemini"

Groq == "Groq"

\* messages = history[-20:]
HistoryCap == 20

----------------------------------------------------------------------------
(* The request classification of chat(), in the order of its if statements *)

\* data.get('message') when the body has no message
NoMessage == [given |-> FALSE, text |-> <<>>]

Given(text) == [given |-> TRUE, text |-> text]

\* Mutant of Truthy: only the absence of the field is tested
TruthyGivenOnly(message) == message.given

\* `not message` is false: the message is present and not the empty string
Truthy(message) == message.given /\ message.text # <<>>

\* Mutant of Route: the identity questions are tested before the image block
RouteIdentityFirst(message) ==
    IF ~Truthy(message) THEN "invalid"
    ELSE IF is_moonlost_request(message.text) THEN "moonlost"
    ELSE IF is_creator_request(message.text) THEN "creator"
    ELSE IF is_image_request(message.text) /\ ~is_code_request(message.text)
         THEN "image"
    ELSE "provider"

\* Mutant of Route: the creator test comes before the moonlost test
RouteCreatorFirst(message) ==
    IF ~Truthy(message) THEN "invalid"
    ELSE IF is_image_request(message.text) /\ ~is_code_request(message.text)
         THEN "image"
    ELSE IF is_creator_request(message.text) THEN "creator"
    ELSE IF is_moonlost_request(message.text) THEN "moonlost"
    ELSE "provider"

\* Mutant of Route: the image block does not look at the code keywords
RouteNoCodeCheck(message) ==
    IF ~Truthy(message) THEN "invalid"
    ELSE IF is_image_request(message.text) THEN "image"
    ELSE IF is_moonlost_request(message.text) THEN "moonlost"
    ELSE IF is_creator_request(message.text) THEN "creator"
    ELSE "provider"

Route(message) ==
    IF ~Truthy(message) THEN "invalid"
    ELSE IF is_image_request(message.text) /\ ~is_code_request(message.text)
         THEN "image"
    ELSE IF is_moonlost_request(message.text) THEN "moonlost"
    ELSE IF is_creator_request(message.text) THEN "creator"
    ELSE "provider"

----------------------------------------------------------------------------
(* Bounds and inputs *)

ConvIds == {"c1", "c2"}

Workers == {"w1", "w2"}

\* list objects: one per stored conversation and one per request in flight
Refs == {"L1", "L2", "L3", "L4"}

\* messages held in memory, over all lists (the wide scope)
MaxStored == 4

\* upstream faults injected in one behaviour (the wide scope)
MaxFaults == 3

\* messages held in memory in the deep scope: one more than HistoryCap + 1
DeepStored == 22

\* upstream faults injected in one behaviour of the deep scope
DeepFaults == 4

\* messages held in memory in the classification scope
ClassifyStored == 2

\* upstream faults injected in one behaviour of the classification scope
ClassifyFaults == 2

\* milliseconds that pass in one behaviour (the timed scope)
MaxClock == 1

\* messages held in memory in the timed scope
TimedStored == 4

\* upstream faults injected in one behaviour of the timed scope
TimedFaults == 2

\* messages held in memory in the concurrent scope
ConcStored == 6

\* upstream faults injected in one behaviour of the concurrent scope
ConcFaults == 2

\* str(int(datetime.now().timestamp() * 1000)) at time t
TimeId(t) == ToString(t)

\* the ids chat() can generate
GeneratedIds == {TimeId(t) : t \in 0..MaxClock}

\* the ids a client supplies, and the generated ones
AllIds == ConvIds \cup GeneratedIds

\* response.text / response.choices[0].message.content of a provider
Replies == {<<"reply A">>, <<"reply B">>}

\* str(e) of an exception raised inside an adapter
UpstreamErrors == {<<"HTTPSConnectionPool(host='upstream'): 401 for url https://upstream/v1?key=SECRET">>}

\* "hello": code 0, image 0, moonlost 0, creator 0
MsgHello == <<"h","e","l","l","o">>
\* "Hello World": code 1, image 0, moonlost 0, creator 0
MsgHelloWorld == <<"H","e","l","l","o"," ","W","o","r","l","d">>
\* "draw me a dog": code 0, image 1, moonlost 0, creator 0
MsgDrawDog == <<"d","r","a","w"," ","m","e"," ","a"," ","d","o","g">>
\* " DRAW a dog ": code 0, image 1, moonlost 0, creator 0
MsgDrawDogUpper == <<" ","D","R","A","W"," ","a"," ","d","o","g"," ">>
\* "draw a function": code 1, image 1, moonlost 0, creator 0
MsgDrawFunction == <<"d","r","a","w"," ","a"," ","f","u","n","c","t","i","o","n">>
\* "Who is Moonlost": code 0, image 0, moonlost 1, creator 0
MsgWhoIsMoonlost == <<"W","h","o"," ","i","s"," ","M","o","o","n","l","o","s","t">>
\* "who made you": code 0, image 0, moonlost 0, creator 1
MsgWhoMadeYou == <<"w","h","o"," ","m","a","d","e"," ","y","o","u">>
\* "who made you, moonlost?": code 0, image 0, moonlost 1, creator 1
MsgMadeMoonlost == <<"w","h","o"," ","m","a","d","e"," ","y","o","u",","," ","m","o","o","n","l","o","s","t","?">>
\* "draw moonlost?": code 0, image 1, moonlost 1, creator 0
MsgDrawMoonlost == <<"d","r","a","w"," ","m","o","o","n","l","o","s","t","?">>
\* "draw who made you": code 0, image 1, moonlost 0, creator 1
MsgDrawWhoMade == <<"d","r","a","w"," ","w","h","o"," ","m","a","d","e"," ","y","o","u">>
\* "code moonlost?": code 1, image 0, moonlost 1, creator 0
MsgCodeMoonlost == <<"c","o","d","e"," ","m","o","o","n","l","o","s","t","?">>
\* "who coded you": code 1, image 0, moonlost 0, creator 1
MsgWhoCodedYou == <<"w","h","o"," ","c","o","d","e","d"," ","y","o","u">>
\* "draw code moonlost?": code 1, image 1, moonlost 1, creator 0
MsgDrawCodeMoonlost == <<"d","r","a","w"," ","c","o","d","e"," ","m","o","o","n","l","o","s","t","?">>
\* "draw who coded you": code 1, image 1, moonlost 0, creator 1
MsgDrawWhoCoded == <<"d","r","a","w"," ","w","h","o"," ","c","o","d","e","d"," ","y","o","u">>
\* "who coded you moonlost?": code 1, image 0, moonlost 1, creator 1
MsgCodedMoonlost == <<"w","h","o"," ","c","o","d","e","d"," ","y","o","u"," ","m","o","o","n","l","o","s","t","?">>
\* "draw who made you moonlost?": code 0, image 1, moonlost 1, creator 1
MsgDrawMadeMoonlost == <<"d","r","a","w"," ","w","h","o"," ","m","a","d","e"," ","y","o","u"," ","m","o","o","n","l","o","s","t","?">>
\* "draw who coded you moonlost?": code 1, image 1, moonlost 1, creator 1
MsgDrawCodedMoonlost == <<"d","r","a","w"," ","w","h","o"," ","c","o","d","e","d"," ","y","o","u"," ","m","o","o","n","l","o","s","t","?">>
\* " ": code 0, image 0, moonlost 0, creator 0
MsgBlank == <<" ">>

AllTexts ==
    { <<>>, MsgHello, MsgHelloWorld, MsgDrawDog, MsgDrawDogUpper, MsgDrawFunction,
      MsgWhoIsMoonlost, MsgWhoMadeYou, MsgMadeMoonlost, MsgDrawMoonlost,
      MsgDrawWhoMade, MsgCodeMoonlost, MsgWhoCodedYou, MsgDrawCodeMoonlost,
      MsgDrawWhoCoded, MsgCodedMoonlost, MsgDrawMadeMoonlost,
      MsgDrawCodedMoonlost, MsgBlank }

AllMessages == {NoMessage} \cup {Given(text) : text \in AllTexts}

\* Route and the four keyword tests, tabulated over the inputs
RouteOf == [message \in AllMessages |-> Route(message)]

MatchOf ==
    [text \in AllTexts |->
        [code     |-> is_code_request(text),
         image    |-> is_image_request(text),
         moonlost |-> is_moonlost_request(text),
         creator  |-> is_creator_request(text)]]

\* A scope: the inputs and bounds one specification explores
Wide ==
    [ids       |-> ConvIds,
     workers   |-> {"w1"},
     texts     |-> {<<>>, MsgHello, MsgDrawFunction, MsgDrawDog,
                    MsgWhoIsMoonlost, MsgWhoMadeYou},
     apiKeys   |-> BOOLEAN,
     configs   |-> BOOLEAN \X BOOLEAN,
     replies   |-> Replies,
     maxStored |-> MaxStored,
     maxFaults |-> MaxFaults]

\* one conversation grown past HistoryCap
Deep ==
    [ids       |-> {"c1"},
     workers   |-> {"w1"},
     texts     |-> {<<>>, MsgHello, MsgDrawDog, MsgWhoIsMoonlost, MsgWhoMadeYou},
     apiKeys   |-> {FALSE},
     configs   |-> {<<TRUE, TRUE>>},
     replies   |-> {<<"reply A">>},
     maxStored |-> DeepStored,
     maxFaults |-> DeepFaults]

\* two worker threads, one supplied id, generated ids
Timed ==
    [ids       |-> {"c1"},
     workers   |-> Workers,
     texts     |-> {<<>>, MsgHello, MsgDrawDog, MsgWhoIsMoonlost, MsgWhoMadeYou},
     apiKeys   |-> {FALSE},
     configs   |-> {<<TRUE, TRUE>>},
     replies   |-> {<<"reply A">>},
     maxStored |-> TimedStored,
     maxFaults |-> TimedFaults,
     maxClock  |-> MaxClock]

\* two worker threads on one conversation id
Conc ==
    [ids       |-> {"c1"},
     workers   |-> Workers,
     texts     |-> {<<>>, MsgHello, MsgDrawDog, MsgWhoIsMoonlost, MsgWhoMadeYou},
     apiKeys   |-> {FALSE},
     configs   |-> {<<TRUE, TRUE>>},
     replies   |-> Replies,
     maxStored |-> ConcStored,
     maxFaults |-> ConcFaults]

\* every input text, short histories
Classify ==
    [ids       |-> ConvIds,
     workers   |-> {"w1"},
     texts     |-> AllTexts,
     apiKeys   |-> {FALSE},
     configs   |-> {<<TRUE, TRUE>>},
     replies   |-> Replies,
     maxStored |-> ClassifyStored,
     maxFaults |-> ClassifyFaults]

----------------------------------------------------------------------------
(* Python dicts and lists *)

\* {}
EmptyDict == [k \in {} |-> TRUE]

\* d[key] = value
Put(d, key, value) ==
    [k \in DOMAIN d \cup {key} |-> IF k = key THEN value ELSE d[k]]

\* if key in d: del d[key]
Del(d, key) == [k \in DOMAIN d \ {key} |-> d[k]]

\* Mutant of LastN: the slice is forgotten, the whole history goes upstream
LastNUncapped(history) == history

\* history[-20:]: a new list of the last min(20, len) entries
LastN(history) ==
    IF Len(history) <= HistoryCap THEN history
    ELSE SubSeq(history, Len(history) - HistoryCap + 1, Len(history))

\* {'role': ..., 'content': ...}
Entry(role, content) == [role |-> role, content |-> content]

\* the list objects some name still refers to
Live(convs, reqs) ==
    {convs[c] : c \in DOMAIN convs}
        \cup {reqs[w].history : w \in {v \in Workers : reqs[v].pc # "idle"}}

\* garbage collection: a list no name refers to is gone
Collect(h, convs, reqs) ==
    [r \in Refs |-> IF r \in Live(convs, reqs) THEN h[r] ELSE <<>>]

\* the object a list display `[]` creates
FreshRef == CHOOSE r \in Refs : r \notin Live(conversations, req)

RECURSIVE SumLen(_, _)
SumLen(h, refs) ==
    IF refs = {} THEN 0
    ELSE LET r == CHOOSE x \in refs : TRUE
         IN  Len(h[r]) + SumLen(h, refs \ {r})

\* messages held in memory
StoredTotal == SumLen(heap, Refs)

InFlight == {w \in Workers : req[w].pc # "idle"}

----------------------------------------------------------------------------
(* State *)

IdleReq ==
    [pc              |-> "idle",
     conversation_id |-> "",
     message         |-> <<>>,
     api_key         |-> FALSE,
     history         |-> "",
     messages        |-> <<>>,
     use_gemini      |-> TRUE,
     calls           |-> <<>>,      \* history: the provider calls made so far
     pre             |-> <<>>,      \* history: what GET showed at the start
     peers           |-> {},        \* history: exchanges stored meanwhile
     stale           |-> FALSE]     \* history: the id was deleted meanwhile

\* A response.  A field the JSON object lacks has its empty value.  The fields
\* sent, calls, pre, route, peers and stale are history: the request's message,
\* the provider calls it made, what the store held for its id when it arrived,
\* the branch of chat() that answered, the exchanges other requests on its id
\* stored while it was in flight, and whether its id was deleted meanwhile.
Response(op, conversation_id, status) ==
    [op              |-> op,
     conversation_id |-> conversation_id,
     status          |-> status,
     message         |-> <<>>,
     error           |-> <<>>,
     provider        |-> "",
     imageBlocked    |-> FALSE,
     history         |-> <<>>,
     sent            |-> <<>>,
     calls           |-> <<>>,
     pre             |-> <<>>,
     route           |-> "",
     peers           |-> {},
     stale           |-> FALSE]

NoResp == Response("none", "", 0)

InitOver(scope) ==
    /\ conversations = EmptyDict
    /\ conversation_turn = EmptyDict
    /\ heap = [r \in Refs |-> <<>>]
    /\ \E config \in scope.configs :
          /\ google_api_key = config[1]
          /\ groq_client = config[2]
    /\ req = [w \in Workers |-> IdleReq]
    /\ resp = NoResp
    /\ chainCalls = [c \in AllIds |-> 0]
    /\ faults = 0
    /\ used = {}
    /\ clock = 0

----------------------------------------------------------------------------
(* POST /api/chat: the branches that answer without a provider *)

\* a worker thread takes a request only when it handles none
Idle(w) == req[w].pc = "idle"

\* lines 242-243
ChatRejected(w, conversation_id, message) ==
    /\ Idle(w)
    /\ RouteOf[message] = "invalid"
    /\ resp' = [Response("chat", conversation_id, 400) EXCEPT
                   !.error = MESSAGE_REQUIRED,
                   !.sent  = message.text,
                   !.route = "invalid"]
    /\ used' = used \cup ({conversation_id} \cap ConvIds)
    /\ UNCHANGED << conversations, conversation_turn, heap, google_api_key,
                    groq_client, clock, req, chainCalls, faults >>

\* Mutant of ChatImageBlocked: the block is tested after line 273, when the
\* turn flag has been flipped
ChatImageBlockedLate(w, conversation_id, message) ==
    /\ req[w].pc = "idle"
    /\ RouteOf[message] = "image"
    /\ conversation_turn' =
           [k \in DOMAIN conversation_turn \cup {conversation_id} |->
               IF k = conversation_id
               THEN (IF k \in DOMAIN conversation_turn
                     THEN ~conversation_turn[k] ELSE FALSE)
               ELSE conversation_turn[k]]
    /\ resp' = [Response("chat", conversation_id, 200) EXCEPT
                   !.message      = IMAGE_BLOCKED_RESPONSE,
                   !.imageBlocked = TRUE,
                   !.sent         = message.text,
                   !.route        = "image"]
    /\ used' = used \cup ({conversation_id} \cap ConvIds)
    /\ UNCHANGED << conversations, heap, google_api_key, groq_client, clock, req,
                    chainCalls, faults >>

\* lines 246-251
ChatImageBlocked(w, conversation_id, message) ==
    /\ Idle(w)
    /\ RouteOf[message] = "image"
    /\ resp' = [Response("chat", conversation_id, 200) EXCEPT
                   !.message      = IMAGE_BLOCKED_RESPONSE,
                   !.imageBlocked = TRUE,
                   !.sent         = message.text,
                   !.route        = "image"]
    /\ used' = used \cup ({conversation_id} \cap ConvIds)
    /\ UNCHANGED << conversations, conversation_turn, heap, google_api_key,
                    groq_client, clock, req, chainCalls, faults >>

\* lines 254-258
ChatMoonlost(w, conversation_id, message) ==
    /\ Idle(w)
    /\ RouteOf[message] = "moonlost"
    /\ resp' = [Response("chat", conversation_id, 200) EXCEPT
                   !.message = MOONLOST_RESPONSE,
                   !.sent    = message.text,
                   !.route   = "moonlost"]
    /\ used' = used \cup ({conversation_id} \cap ConvIds)
    /\ UNCHANGED << conversations, conversation_turn, heap, google_api_key,
                    groq_client, clock, req, chainCalls, faults >>

\* lines 261-265
ChatCreator(w, conversation_id, message) ==
    /\ Idle(w)
    /\ RouteOf[message] = "creator"
    /\ resp' = [Response("chat", conversation_id, 200) EXCEPT
                   !.message = CREATOR_RESPONSE,
                   !.sent    = message.text,
                   !.route   = "creator"]
    /\ used' = used \cup ({conversation_id} \cap ConvIds)
    /\ UNCHANGED << conversations, conversation_turn, heap, google_api_key,
                    groq_client, clock, req, chainCalls, faults >>

----------------------------------------------------------------------------
(* POST /api/chat: the provider chain *)

\* conversation_turn.get(conversation_id, True)
UseGemini(conversation_id) ==
    IF conversation_id \in DOMAIN conversation_turn
    THEN conversation_turn[conversation_id]
    ELSE TRUE

\* Mutant of NextTurn: the flag is stored back without the `not`
NextTurnStuck(use_gemini) == use_gemini

\* conversation_turn[conversation_id] = not use_gemini
NextTurn(use_gemini) == ~use_gemini

\* the provider the turn flag chooses (lines 275-276, 279-280)
Primary(use_gemini) == IF use_gemini THEN Gemini ELSE Groq

\* Mutant of Fallback: the failed provider is called again
FallbackSame(use_gemini) == Primary(use_gemini)

\* the provider of the fallback call (lines 278, 282)
Fallback(use_gemini) == IF use_gemini THEN Groq ELSE Gemini

\* what GET /api/conversation/<id> would show: the stored list, or nothing
Stored(conversation_id) ==
    IF conversation_id \in DOMAIN conversations
    THEN heap[conversations[conversation_id]]
    ELSE <<>>

\* Mutant of ChatBegin: the list is stored at line 268, before any provider
\* answered
ChatBeginStored(w, conversation_id, message, api_key, maxStored) ==
    /\ Idle(w)
    /\ RouteOf[message] = "provider"
    /\ StoredTotal + Cardinality(InFlight) + 2 <= maxStored
    /\ LET history    == IF conversation_id \in DOMAIN conversations
                         THEN conversations[conversation_id]
                         ELSE FreshRef
           appended   == Append(heap[history], Entry("user", message.text))
           use_gemini == UseGemini(conversation_id)
       IN  /\ heap' = [heap EXCEPT ![history] = appended]
           /\ conversation_turn' =
                  Put(conversation_turn, conversation_id, NextTurn(use_gemini))
           /\ conversations' = Put(conversations, conversation_id, history)
           /\ req' = [req EXCEPT ![w] =
                        [pc              |-> "primary",
                         conversation_id |-> conversation_id,
                         message         |-> message.text,
                         api_key         |-> api_key,
                         history         |-> history,
                         messages        |-> LastN(appended),
                         use_gemini      |-> use_gemini,
                         calls           |-> <<>>,
                         pre             |-> Stored(conversation_id),
                         peers           |-> {},
                         stale           |-> FALSE]]
    /\ resp' = NoResp
    /\ chainCalls' = [chainCalls EXCEPT ![conversation_id] =
                         IF @ = 1 THEN 2 ELSE 1]
    /\ used' = used \cup ({conversation_id} \cap ConvIds)
    /\ UNCHANGED << google_api_key, groq_client, clock, faults >>

\* lines 267-273 and the start of the primary call: the history is the stored
\* list itself when there is one, and a new list otherwise
ChatBegin(w, conversation_id, message, api_key, maxStored) ==
    /\ Idle(w)
    /\ RouteOf[message] = "provider"
    /\ StoredTotal + Cardinality(InFlight) + 2 <= maxStored
    /\ LET history    == IF conversation_id \in DOMAIN conversations
                         THEN conversations[conversation_id]
                         ELSE FreshRef
           appended   == Append(heap[history], Entry("user", message.text))
           use_gemini == UseGemini(conversation_id)
       IN  /\ heap' = [heap EXCEPT ![history] = appended]
           /\ conversation_turn' =
                  Put(conversation_turn, conversation_id, NextTurn(use_gemini))
           /\ req' = [req EXCEPT ![w] =
                        [pc              |-> "primary",
                         conversation_id |-> conversation_id,
                         message         |-> message.text,
                         api_key         |-> api_key,
                         history         |-> history,
                         messages        |-> LastN(appended),
                         use_gemini      |-> use_gemini,
                         calls           |-> <<>>,
                         pre             |-> Stored(conversation_id),
                         peers           |-> {},
                         stale           |-> FALSE]]
    /\ resp' = NoResp
    /\ chainCalls' = [chainCalls EXCEPT ![conversation_id] =
                         IF @ = 1 THEN 2 ELSE 1]
    /\ used' = used \cup ({conversation_id} \cap ConvIds)
    /\ UNCHANGED << conversations, google_api_key, groq_client, clock, faults >>

\* call_gemini_api / call_groq_api: whether the adapter has a credential
\* (key = api_key or google_api_key; groq_client)
Configured(provider, api_key) ==
    IF provider = Gemini THEN api_key \/ google_api_key ELSE groq_client

\* the adapter's error when it has no credential (lines 167, 203)
NoKeyError(provider) == IF provider = Gemini THEN NO_GEMINI_KEY ELSE NO_GROQ_KEY

\* the provider whose call worker w waits for
Calling(w) ==
    IF req[w].pc = "primary" THEN Primary(req[w].use_gemini)
    ELSE Fallback(req[w].use_gemini)

Call(provider, messages, success) ==
    [provider |-> provider, messages |-> messages, success |-> success]

\* The exchange of request w as the list `appended` holds it: the user message
\* where line 268 appended it, the reply where line 287 did
Exchange(w, reply, appended) ==
    [sent    |-> req[w].message,
     reply   |-> reply,
     userAt  |-> Len(req[w].pre) + 1,
     replyAt |-> Len(appended)]

\* The requests after w was answered.  History: every other request in flight
\* on the same id notes w's exchange, and whether both hold the same list.
Completed(w, reply, appended) ==
    [v \in DOMAIN req |->
        IF v = w THEN IdleReq
        ELSE IF /\ req[v].pc # "idle"
                /\ req[v].conversation_id = req[w].conversation_id
        THEN [req[v] EXCEPT !.peers = @ \cup
                 {[exchange |-> Exchange(w, reply, appended),
                   shared   |-> req[v].history = req[w].history]}]
        ELSE req[v]]

\* Mutant of Succeed: line 288, conversations[conversation_id] = history, is
\* left out
SucceedUnstored(w, reply) ==
    LET r        == req[w]
        provider == IF r.pc = "primary"
                    THEN (IF r.use_gemini THEN Gemini ELSE Groq)
                    ELSE (IF r.use_gemini THEN Groq ELSE Gemini)
        appended == Append(heap[r.history], Entry("assistant", reply))
        reqs     == Completed(w, reply, appended)
    IN  /\ conversations' = conversations
        /\ req' = reqs
        /\ heap' = Collect([heap EXCEPT ![r.history] = appended], conversations, reqs)
        /\ resp' = [Response("chat", r.conversation_id, 200) EXCEPT
                       !.message  = reply,
                       !.provider = provider,
                       !.sent     = r.message,
                       !.calls    = Append(r.calls, Call(provider, r.messages, TRUE)),
                       !.pre      = r.pre,
                       !.route    = "provider",
                       !.peers    = r.peers,
                       !.stale    = r.stale]
        /\ UNCHANGED << conversation_turn, google_api_key, groq_client, clock,
                        chainCalls, faults,
                        used >>

\* Mutant of Succeed: the history read at line 267 is copied, and the copy with
\* this request's exchange replaces the list
SucceedSnapshot(w, reply) ==
    LET r        == req[w]
        provider == Calling(w)
        appended == r.pre \o << Entry("user", r.message),
                                Entry("assistant", reply) >>
        convs    == Put(conversations, r.conversation_id, r.history)
        reqs     == Completed(w, reply, appended)
    IN  /\ conversations' = convs
        /\ req' = reqs
        /\ heap' = Collect([heap EXCEPT ![r.history] = appended], convs, reqs)
        /\ resp' = [Response("chat", r.conversation_id, 200) EXCEPT
                       !.message  = reply,
                       !.provider = provider,
                       !.sent     = r.message,
                       !.calls    = Append(r.calls, Call(provider, r.messages, TRUE)),
                       !.pre      = r.pre,
                       !.route    = "provider",
                       !.peers    = r.peers,
                       !.stale    = r.stale]
        /\ UNCHANGED << conversation_turn, google_api_key, groq_client, clock,
                        chainCalls, faults,
                        used >>

\* lines 287-294 after a call returned {'success': True, 'message': reply,
\* 'provider': provider}
Succeed(w, reply) ==
    LET r        == req[w]
        provider == Calling(w)
        appended == Append(heap[r.history], Entry("assistant", reply))
        convs    == Put(conversations, r.conversation_id, r.history)
        reqs     == Completed(w, reply, appended)
    IN  /\ conversations' = convs
        /\ req' = reqs
        /\ heap' = Collect([heap EXCEPT ![r.history] = appended], convs, reqs)
        /\ resp' = [Response("chat", r.conversation_id, 200) EXCEPT
                       !.message  = reply,
                       !.provider = provider,
                       !.sent     = r.message,
                       !.calls    = Append(r.calls, Call(provider, r.messages, TRUE)),
                       !.pre      = r.pre,
                       !.route    = "provider",
                       !.peers    = r.peers,
                       !.stale    = r.stale]
        /\ UNCHANGED << conversation_turn, google_api_key, groq_client, clock,
                        chainCalls, faults,
                        used >>

\* The errors a call of `provider` can return now: the missing credential, or
\* the text of an exception raised upstream (a fault, while the budget lasts).
Failures(w, provider, errors, maxFaults) ==
    IF ~Configured(provider, req[w].api_key) THEN {NoKeyError(provider)}
    ELSE IF faults < maxFaults THEN errors ELSE {}

CountFault(w, provider) ==
    faults' = IF Configured(provider, req[w].api_key) THEN faults + 1 ELSE faults

\* line 276 / 280 returns success
PrimarySucceeds(w, replies) ==
    /\ req[w].pc = "primary"
    /\ Configured(Calling(w), req[w].api_key)
    /\ \E reply \in replies : Succeed(w, reply)

\* Mutant of PrimaryFails: the failed call is repeated on the same provider
PrimaryFailsRetry(w, errors, maxFaults) ==
    /\ req[w].pc = "primary"
    /\ \E error \in Failures(w, Calling(w), errors, maxFaults) :
          req' = [req EXCEPT ![w].calls =
                                 Append(@, Call(Calling(w), req[w].messages, FALSE))]
    /\ CountFault(w, Calling(w))
    /\ UNCHANGED << conversations, conversation_turn, heap, google_api_key,
                    groq_client, clock, resp, chainCalls,
                    used >>

\* Mutant of PrimaryFails: a missing credential is answered at once, and only
\* an upstream error leads to the other provider
PrimaryFailsByKind(w, errors, maxFaults) ==
    /\ req[w].pc = "primary"
    /\ \E error \in Failures(w, Calling(w), errors, maxFaults) :
          LET r    == req[w]
              reqs == [req EXCEPT ![w] = IdleReq]
              call == Call(Calling(w), r.messages, FALSE)
          IN  IF Configured(Calling(w), r.api_key)
              THEN /\ req' = [req EXCEPT ![w].pc = "fallback",
                                         ![w].calls = Append(@, call)]
                   /\ UNCHANGED << heap, resp >>
              ELSE /\ req' = reqs
                   /\ heap' = Collect(heap, conversations, reqs)
                   /\ resp' = [Response("chat", r.conversation_id, 500) EXCEPT
                                  !.error = error,
                                  !.sent  = r.message,
                                  !.calls = Append(r.calls, call),
                                  !.pre   = r.pre,
                                  !.route = "provider"]
    /\ CountFault(w, Calling(w))
    /\ UNCHANGED << conversations, conversation_turn, google_api_key,
                    groq_client, clock, chainCalls,
                    used >>

\* line 276 / 280 returns failure: line 278 / 282 calls the other provider
PrimaryFails(w, errors, maxFaults) ==
    /\ req[w].pc = "primary"
    /\ \E error \in Failures(w, Calling(w), errors, maxFaults) :
          req' = [req EXCEPT ![w].pc = "fallback",
                             ![w].calls =
                                 Append(@, Call(Calling(w), req[w].messages, FALSE))]
    /\ CountFault(w, Calling(w))
    /\ UNCHANGED << conversations, conversation_turn, heap, google_api_key,
                    groq_client, clock, resp, chainCalls,
                    used >>

\* line 278 / 282 returns success
FallbackSucceeds(w, replies) ==
    /\ req[w].pc = "fallback"
    /\ Configured(Calling(w), req[w].api_key)
    /\ \E reply \in replies : Succeed(w, reply)

\* line 278 / 282 returns failure: lines 284-285
FallbackFails(w, errors, maxFaults) ==
    /\ req[w].pc = "fallback"
    /\ \E error \in Failures(w, Calling(w), errors, maxFaults) :
          LET r    == req[w]
              reqs == [req EXCEPT ![w] = IdleReq]
          IN  /\ req' = reqs
              /\ heap' = Collect(heap, conversations, reqs)
              /\ resp' = [Response("chat", r.conversation_id, 500) EXCEPT
                             !.error = error,
                             !.sent  = r.message,
                             !.calls = Append(r.calls,
                                              Call(Calling(w), r.messages, FALSE)),
                             !.pre   = r.pre,
                             !.route = "provider"]
    /\ CountFault(w, Calling(w))
    /\ UNCHANGED << conversations, conversation_turn, google_api_key,
                    groq_client, clock, chainCalls,
                    used >>

----------------------------------------------------------------------------
(* GET and DELETE /api/conversation/<conversation_id> *)

\* Mutant of get_conversation: the `if not history` test is left out
get_conversationUnchecked(conversation_id) ==
    [Response("get", conversation_id, 200) EXCEPT
        !.history = Stored(conversation_id)]

\* lines 303-306: `not history` holds for a missing and for an empty list
get_conversation(conversation_id) ==
    IF Stored(conversation_id) = <<>>
    THEN [Response("get", conversation_id, 404) EXCEPT
             !.error = CONVERSATION_NOT_FOUND]
    ELSE [Response("get", conversation_id, 200) EXCEPT
             !.history = Stored(conversation_id)]

GetConversation(w, conversation_id) ==
    /\ Idle(w)
    /\ resp' = get_conversation(conversation_id)
    /\ UNCHANGED << conversations, conversation_turn, heap, google_api_key,
                    groq_client, clock, req, chainCalls, faults,
                    used >>

\* Mutant of Deleted: the dict is cleared instead of losing one key
DeletedAll(d, conversation_id) == EmptyDict

\* lines 311-314
Deleted(d, conversation_id) == Del(d, conversation_id)

DeleteConversation(w, conversation_id) ==
    /\ Idle(w)
    /\ conversations' = Deleted(conversations, conversation_id)
    /\ conversation_turn' = Deleted(conversation_turn, conversation_id)
    /\ heap' = Collect(heap, conversations', req)
    /\ resp' = [Response("delete", conversation_id, 200) EXCEPT
                   !.message = CONVERSATION_CLEARED,
                   !.pre     = Stored(conversation_id)]
    /\ req' = [v \in DOMAIN req |->
                  IF req[v].pc # "idle" /\ req[v].conversation_id = conversation_id
                  THEN [req[v] EXCEPT !.stale = TRUE]
                  ELSE req[v]]
    /\ chainCalls' = [chainCalls EXCEPT ![conversation_id] = 0]
    /\ UNCHANGED << google_api_key, groq_client, clock, faults,
                    used >>

----------------------------------------------------------------------------
(* Specifications *)

Messages(scope) == {NoMessage} \cup {Given(text) : text \in scope.texts}

NextOver(scope) ==
    \E w \in scope.workers :
        \/ \E c \in scope.ids, m \in Messages(scope) :
              \/ ChatRejected(w, c, m)
              \/ ChatImageBlocked(w, c, m)
              \/ ChatMoonlost(w, c, m)
              \/ ChatCreator(w, c, m)
              \/ \E k \in scope.apiKeys : ChatBegin(w, c, m, k, scope.maxStored)
        \/ PrimarySucceeds(w, scope.replies)
        \/ PrimaryFails(w, UpstreamErrors, scope.maxFaults)
        \/ FallbackSucceeds(w, scope.replies)
        \/ FallbackFails(w, UpstreamErrors, scope.maxFaults)
        \/ \E c \in scope.ids :
              \/ GetConversation(w, c)
              \/ DeleteConversation(w, c)

\* data.get('conversationId', str(int(datetime.now().timestamp() * 1000)))
\* when the body has no conversationId
NowId == TimeId(clock)

\* a millisecond passes
Tick(maxClock) ==
    /\ clock < maxClock
    /\ clock' = clock + 1
    /\ UNCHANGED << conversations, conversation_turn, heap, google_api_key,
                    groq_client, req, resp, chainCalls, faults, used >>

\* NextOver, with time passing, with chat requests that supply no
\* conversationId, and with GET and DELETE on the ids these were given
NextTimed(scope) ==
    \/ NextOver(scope)
    \/ Tick(scope.maxClock)
    \/ \E w \in scope.workers :
          \/ \E m \in Messages(scope) :
                \/ ChatRejected(w, NowId, m)
                \/ ChatImageBlocked(w, NowId, m)
                \/ ChatMoonlost(w, NowId, m)
                \/ ChatCreator(w, NowId, m)
                \/ \E k \in scope.apiKeys : ChatBegin(w, NowId, m, k, scope.maxStored)
          \/ \E c \in GeneratedIds :
                \/ GetConversation(w, c)
                \/ DeleteConversation(w, c)

\* sequential requests on two conversation ids
Init == InitOver(Wide)

Next == NextOver(Wide)

Spec == Init /\ [][Next]_vars

\* sequential requests on one conversation grown past HistoryCap
InitDeep == InitOver(Deep)

NextDeep == NextOver(Deep)

SpecDeep == InitDeep /\ [][NextDeep]_vars

\* sequential requests over every input text
InitClassify == InitOver(Classify)

NextClassify == NextOver(Classify)

SpecClassify == InitClassify /\ [][NextClassify]_vars

\* overlapping requests of two worker threads on one conversation id
InitConc == InitOver(Conc)

NextConc == NextOver(Conc)

SpecConc == InitConc /\ [][NextConc]_vars

\* overlapping requests of two worker threads, with and without a
\* conversationId, while time passes
InitTimed == InitOver(Timed)

NextTimedScope == NextTimed(Timed)

SpecTimed == InitTimed /\ [][NextTimedScope]_vars

----------------------------------------------------------------------------
(* What the responses and the requests in flight show *)

\* a chat request that reached the provider chain was answered (200 or 500)
ChainAnswered == resp.op = "chat" /\ resp.calls # <<>>

\* a chat request was answered by a provider
ProviderAnswered == ChainAnswered /\ resp.status = 200

\* both providers failed
TotalFailure == ChainAnswered /\ resp.status = 500

Other(provider) == IF provider = Gemini THEN Groq ELSE Gemini

\* the provider a request in flight tried first
TriedFirst(w) ==
    IF req[w].pc = "primary" THEN Calling(w) ELSE req[w].calls[1].provider

\* Gemini on the 1st, 3rd, ... call since the id was new or deleted, Groq on
\* the 2nd, 4th, ...
Expected(nth) == IF nth = 1 THEN Gemini ELSE Groq

\* C1: Counting the chat calls on an id that reach the provider chain since
\* the id was new or last deleted, the odd ones try Gemini first and the even
\* ones Groq, whether the call is still waiting, succeeded, was answered by
\* the fallback or failed on both; and the provider the next such call will
\* try is decided by that count alone, so canned and rejected calls in
\* between do not change it.
C1_Alternation ==
    /\ \A w \in InFlight :
          TriedFirst(w) = Expected(chainCalls[req[w].conversation_id])
    /\ ChainAnswered =>
          resp.calls[1].provider = Expected(chainCalls[resp.conversation_id])
    /\ \A c \in ConvIds :
          Primary(UseGemini(c)) = IF chainCalls[c] = 1 THEN Groq ELSE Gemini

\* the second call on an id tried Groq first and failed on both providers
C1_Witness ==
    /\ TotalFailure
    /\ chainCalls[resp.conversation_id] = 2
    /\ resp.calls[1].provider = Groq
    /\ resp.calls[2].provider = Gemini

\* C2: While the primary call is out no other call has been made; the
\* fallback is called only after the primary call returned failure, once,
\* on the other provider and with the same message list; and when it
\* succeeds the response is 200 and names the fallback provider.
C2_Fallback ==
    /\ \A w \in InFlight :
          /\ req[w].pc = "primary" => req[w].calls = <<>>
          /\ req[w].pc = "fallback" =>
                /\ Len(req[w].calls) = 1
                /\ ~req[w].calls[1].success
                /\ Calling(w) = Other(req[w].calls[1].provider)
    /\ ChainAnswered =>
          /\ Len(resp.calls) \in {1, 2}
          /\ ~resp.calls[1].success => Len(resp.calls) = 2
          /\ Len(resp.calls) = 2 =>
                /\ ~resp.calls[1].success
                /\ resp.calls[2].provider = Other(resp.calls[1].provider)
                /\ resp.calls[2].messages = resp.calls[1].messages
                /\ resp.calls[2].success =>
                      /\ resp.status = 200
                      /\ resp.provider = resp.calls[2].provider
                      /\ resp.provider # resp.calls[1].provider

\* Groq failed as the primary and Gemini answered as the fallback
C2_Witness ==
    /\ ProviderAnswered
    /\ Len(resp.calls) = 2
    /\ resp.calls[1].provider = Groq
    /\ resp.provider = Gemini

\* C3: After both providers failed the caller has a 500, and GET on the
\* request's id returns the history stored before the request followed by
\* the request's user message, whether or not the id had a stored history.
C3_NoRollback ==
    TotalFailure =>
        /\ get_conversation(resp.conversation_id).status = 200
        /\ get_conversation(resp.conversation_id).history =
               Append(resp.pre, Entry("user", resp.sent))

\* C4: Right after a chat call was answered by a provider, GET on its id
\* returns 200 with the history stored before the call followed by the sent
\* user message and the returned assistant message.
C4_RoundTrip ==
    ProviderAnswered =>
        /\ resp.provider \in {Gemini, Groq}
        /\ get_conversation(resp.conversation_id).status = 200
        /\ get_conversation(resp.conversation_id).history =
               resp.pre \o << Entry("user", resp.sent),
                              Entry("assistant", resp.message) >>

\* a chat call on an id that had a stored history was answered by a provider
C4_Witness ==
    /\ ProviderAnswered
    /\ resp.pre # <<>>
    /\ get_conversation(resp.conversation_id).history # <<>>

\* the last min(20, n) entries of a history of n entries
Tail20(history) ==
    LET n == Len(history)
        k == IF n < 20 THEN n ELSE 20
    IN  [i \in 1..k |-> history[n - k + i]]

\* what a call must have been given: the tail of the history stored before
\* the request with the request's user message appended
CappedView(pre, sent) == Tail20(Append(pre, Entry("user", sent)))

\* C5: Every provider call, primary or fallback, is given exactly the last
\* min(20, n) entries of the history taken after the user message was
\* appended: at most 20 entries, the last one the current user message.  The
\* stored history is never cut: after an answered call it is the history
\* stored before, the user message and the reply, however long.
C5_UpstreamCap ==
    /\ \A w \in InFlight :
          /\ req[w].messages = CappedView(req[w].pre, req[w].message)
          /\ Len(req[w].messages) <= 20
          /\ req[w].messages[Len(req[w].messages)] =
                Entry("user", req[w].message)
          /\ \A i \in 1..Len(req[w].calls) :
                req[w].calls[i].messages = req[w].messages
    /\ ChainAnswered =>
          /\ \A i \in 1..Len(resp.calls) :
                /\ resp.calls[i].messages = CappedView(resp.pre, resp.sent)
                /\ Len(resp.calls[i].messages) <= 20
          /\ \A i \in 1..Len(resp.pre) :
                /\ i <= Len(Stored(resp.conversation_id))
                /\ Stored(resp.conversation_id)[i] = resp.pre[i]
    /\ ProviderAnswered =>
          Len(Stored(resp.conversation_id)) = Len(resp.pre) + 2

\* the 21st message of a conversation was answered by a provider that was
\* given 20 messages, and the store holds 22
C5_Witness ==
    /\ ProviderAnswered
    /\ Len(resp.pre) = 20
    /\ Len(resp.calls[1].messages) = 20
    /\ Len(Stored(resp.conversation_id)) = 22

----------------------------------------------------------------------------
(* Classification and the canned answers *)

\* in this step a chat request with this text entered the provider chain
ChainEntered(text) ==
    \E w \in Workers :
        /\ req[w].pc = "idle"
        /\ req'[w].pc = "primary"
        /\ req'[w].message = text

\* in this step a chat request with this text was answered
Answered(text) == resp' # resp /\ resp'.op = "chat" /\ resp'.sent = text

\* the store and the turn flags
Frame == UNCHANGED << conversations, conversation_turn, heap >>

\* C6: A chat request whose message matches an image keyword and no code
\* keyword never enters the provider chain; it is answered 200 with the
\* refusal text and imageBlocked, without a provider call, and the step that
\* answers it changes no conversation, no turn flag and no request.
C6_ImageBlockedFrame ==
    [][\A text \in AllTexts :
          (MatchOf[text].image /\ ~MatchOf[text].code) =>
              /\ ~ChainEntered(text)
              /\ Answered(text) =>
                    /\ resp'.status = 200
                    /\ resp'.message = IMAGE_BLOCKED_RESPONSE
                    /\ resp'.imageBlocked
                    /\ resp'.provider = ""
                    /\ resp'.calls = <<>>
                    /\ Frame
                    /\ UNCHANGED req]_vars

\* an image request in capitals and padded with blanks was blocked on an id
\* that has a stored history and a turn flag
C6_Witness ==
    /\ resp.op = "chat"
    /\ resp.imageBlocked
    /\ resp.sent = MsgDrawDogUpper
    /\ resp.conversation_id \in DOMAIN conversations
    /\ resp.conversation_id \in DOMAIN conversation_turn

\* the image block does not apply to the text
NotBlocked(text) == ~(MatchOf[text].image /\ ~MatchOf[text].code)

\* C7: A chat request that is not image-blocked and matches an about-entity
\* keyword is answered 200 with MOONLOST_RESPONSE; one that matches a creator
\* keyword and no about-entity keyword is answered 200 with the creator
\* text; neither enters the provider chain or calls a provider, and the step
\* that answers it changes no conversation, no turn flag and no request.
C7_IdentityFrame ==
    [][\A text \in AllTexts :
          (NotBlocked(text) /\ (MatchOf[text].moonlost \/ MatchOf[text].creator)) =>
              /\ ~ChainEntered(text)
              /\ Answered(text) =>
                    /\ resp'.status = 200
                    /\ resp'.message = IF MatchOf[text].moonlost
                                       THEN MOONLOST_RESPONSE
                                       ELSE CREATOR_RESPONSE
                    /\ ~resp'.imageBlocked
                    /\ resp'.provider = ""
                    /\ resp'.calls = <<>>
                    /\ Frame
                    /\ UNCHANGED req]_vars

\* a question matching both identity lists got the about-entity text on an
\* id that has a stored history and a turn flag
C7_Witness ==
    /\ resp.op = "chat"
    /\ resp.message = MOONLOST_RESPONSE
    /\ resp.sent = MsgMadeMoonlost
    /\ resp.conversation_id \in DOMAIN conversations
    /\ resp.conversation_id \in DOMAIN conversation_turn

\* what became of the chat request answered last, read off its response
Outcome ==
    IF resp.imageBlocked THEN "image"
    ELSE IF resp.calls # <<>> THEN "provider"
    ELSE IF resp.message = MOONLOST_RESPONSE THEN "moonlost"
    ELSE IF resp.message = CREATOR_RESPONSE THEN "creator"
    ELSE "none"

\* the order of section 4.1: about-entity, creator, image unless code, none
SpecOrder(text) ==
    IF MatchOf[text].moonlost THEN "moonlost"
    ELSE IF MatchOf[text].creator THEN "creator"
    ELSE IF MatchOf[text].image /\ ~MatchOf[text].code THEN "image"
    ELSE "provider"

\* image unless code, about-entity, creator, none
BlockFirstOrder(text) ==
    IF MatchOf[text].image /\ ~MatchOf[text].code THEN "image"
    ELSE IF MatchOf[text].moonlost THEN "moonlost"
    ELSE IF MatchOf[text].creator THEN "creator"
    ELSE "provider"

\* C8 as claimed: the outcome of every chat request with a non-empty message
\* is the category of the order of section 4.1.
C8_SpecOrder ==
    /\ (resp.op = "chat" /\ resp.sent # <<>>) => Outcome = SpecOrder(resp.sent)
    /\ \A w \in InFlight : SpecOrder(req[w].message) = "provider"

\* C8 as amended: the outcome of every chat request with a non-empty message
\* is image-blocked if the image list matches and the code list does not;
\* else the about-entity text if the about-entity list matches; else the
\* creator text if the creator list matches; else it is forwarded to the
\* provider chain.
C8_BlockFirstOrder ==
    /\ (resp.op = "chat" /\ resp.sent # <<>>) =>
          /\ resp.status # 400
          /\ Outcome = BlockFirstOrder(resp.sent)
    /\ \A w \in InFlight : BlockFirstOrder(req[w].message) = "provider"

\* a message matching the image and both identity lists, and no code
\* keyword, was image-blocked
C8_Witness ==
    /\ resp.op = "chat"
    /\ resp.sent = MsgDrawMadeMoonlost
    /\ Outcome = "image"

\* C9: A chat request whose message matches an image keyword and a code
\* keyword is never answered as image-blocked, whatever else it matches.
C9_CodeOverImage ==
    (resp.op = "chat" /\ MatchOf[resp.sent].image /\ MatchOf[resp.sent].code) =>
        /\ ~resp.imageBlocked
        /\ resp.message # IMAGE_BLOCKED_RESPONSE

\* "draw a function" was answered by a provider
C9_Witness ==
    /\ ProviderAnswered
    /\ resp.sent = MsgDrawFunction
    /\ MatchOf[resp.sent].image
    /\ MatchOf[resp.sent].code

----------------------------------------------------------------------------
(* DELETE *)

\* the stored history and the turn flag of an id are what they were
SameConversation(d) ==
    /\ (d \in DOMAIN conversations') = (d \in DOMAIN conversations)
    /\ Stored(d)' = Stored(d)
    /\ (d \in DOMAIN conversation_turn') = (d \in DOMAIN conversation_turn)
    /\ UseGemini(d)' = UseGemini(d)

\* C10: DELETE can always be served and returns 200; after it the id has no
\* stored history and no turn flag, GET on it returns 404 and the next call
\* on it that reaches the provider chain tries Gemini first; it changes no
\* other id; and a DELETE right after a DELETE of the same id changes nothing.
C10_Delete ==
    /\ [](\A w \in Workers, c \in ConvIds :
             Idle(w) => ENABLED DeleteConversation(w, c))
    /\ [][\A c \in ConvIds :
             (resp'.op = "delete" /\ resp'.conversation_id = c) =>
                 /\ resp'.status = 200
                 /\ c \notin DOMAIN conversations'
                 /\ c \notin DOMAIN conversation_turn'
                 /\ get_conversation(c)'.status = 404
                 /\ Primary(UseGemini(c))' = Gemini
                 /\ \A d \in ConvIds \ {c} : SameConversation(d)
                 /\ (resp.op = "delete" /\ resp.conversation_id = c) =>
                       /\ UNCHANGED << conversations, conversation_turn, heap,
                                       google_api_key, groq_client, clock, req,
                                       chainCalls, faults, used >>
                       /\ resp'.status = resp.status
                       /\ resp'.message = resp.message]_vars

\* an id with a stored history was deleted while another id has a stored
\* history and a turn flag
C10_Witness ==
    /\ resp.op = "delete"
    /\ resp.pre # <<>>
    /\ \E d \in ConvIds \ {resp.conversation_id} :
          /\ d \in DOMAIN conversations
          /\ d \in DOMAIN conversation_turn

----------------------------------------------------------------------------
(* Isolation of the conversation ids *)

\* this step belongs to a chat or DELETE request on the id
OperatesOn(d) ==
    \/ \E w \in Workers :
          /\ req'[w] # req[w]
          /\ d \in {req[w].conversation_id, req'[w].conversation_id}
    \/ /\ req' = req
       /\ resp'.op \in {"chat", "delete"}
       /\ resp'.conversation_id = d

\* C11: An id no chat request has named has no stored history and no turn
\* flag, and GET on it returns 404, whatever was done on other ids; and a
\* step that is not of a chat or DELETE request on an id leaves that id's
\* stored history and turn flag as they were.
C11_Isolation ==
    /\ [](\A c \in ConvIds \ used :
             /\ c \notin DOMAIN conversations
             /\ c \notin DOMAIN conversation_turn
             /\ get_conversation(c).status = 404)
    /\ [][\A d \in ConvIds : OperatesOn(d) \/ SameConversation(d)]_vars

\* GET on an id no chat request has named returned 404 while another id has a
\* stored history and a turn flag
C11_Witness ==
    /\ resp.op = "get"
    /\ resp.status = 404
    /\ resp.conversation_id \notin used
    /\ \E c \in used :
          /\ c \in DOMAIN conversations
          /\ c \in DOMAIN conversation_turn

----------------------------------------------------------------------------
(* Errors shown to the caller *)

\* the error texts that are literals of the program
FixedErrors ==
    {MESSAGE_REQUIRED, INTERNAL_SERVER_ERROR, NO_GEMINI_KEY, NO_GROQ_KEY}

\* C12: Every failing chat response (400 or 500) carries an error text of a
\* fixed set, never the text of an exception raised inside a provider
\* adapter.
C12_NoLeak ==
    (resp.op = "chat" /\ resp.status \in {400, 500}) =>
        /\ resp.error \in FixedErrors
        /\ resp.error \notin UpstreamErrors

----------------------------------------------------------------------------
(* Generated conversation ids *)

\* C13: Chat requests that supply no conversationId are given different ids.
\* In the timed scope no client supplies a generated id, so a request whose id
\* is a generated one supplied none: two such requests in flight have
\* different ids, and each starts from no stored history and from the default
\* turn flag, sharing neither with an earlier request.
C13_UniqueIds ==
    /\ \A w \in InFlight, v \in InFlight :
          (w # v /\ req[w].conversation_id \in GeneratedIds) =>
              req[w].conversation_id # req[v].conversation_id
    /\ \A w \in InFlight :
          req[w].conversation_id \in GeneratedIds =>
              /\ req[w].pre = <<>>
              /\ req[w].use_gemini

----------------------------------------------------------------------------
(* The provider calls of one request *)

\* The provider the turn flag of request r selects
FirstChoice(r) == IF r.use_gemini THEN Gemini ELSE Groq

\* The calls of one request so far, with the call it is blocked in: calls that
\* returned are in the log, and at most one call is outstanding
Returned(w) == Len(req[w].calls)
Outstanding(w) == IF req[w].pc \in {"primary", "fallback"} THEN 1 ELSE 0

\* C14: Single fallback, no retry loop.  A request blocked in its first call
\* has made no other call; one blocked in its second call has one returned
\* call, a failure of the provider its turn flag chose, and waits for the other
\* provider; so calls never overlap and never exceed two.  An answer of the
\* chain carries one call that succeeded, or a failure followed by one call of
\* the other provider, and it is produced in the step in which the last call
\* of the request returns, leaving the request with no call outstanding.
C14_SingleFallback ==
    /\ [](\A w \in Workers :
            LET r == req[w]
            IN  /\ Returned(w) + Outstanding(w) <= 2
                /\ r.pc = "idle" => r.calls = <<>>
                /\ r.pc = "primary" => r.calls = <<>> /\ Calling(w) = FirstChoice(r)
                /\ r.pc = "fallback" =>
                       /\ Returned(w) = 1
                       /\ ~r.calls[1].success
                       /\ r.calls[1].provider = FirstChoice(r)
                       /\ Calling(w) = Other(FirstChoice(r)))
    /\ [](ChainAnswered =>
            /\ Len(resp.calls) \in {1, 2}
            /\ resp.calls[1].success => Len(resp.calls) = 1
            /\ Len(resp.calls) = 2 =>
                   resp.calls[2].provider = Other(resp.calls[1].provider))
    /\ [][(resp' # resp /\ ChainAnswered') =>
             \E w \in Workers :
                /\ Outstanding(w) = 1
                /\ Outstanding(w)' = 0
                /\ Len(resp'.calls) = Returned(w) + 1
                /\ SubSeq(resp'.calls, 1, Returned(w)) = req[w].calls
                /\ resp'.calls[Len(resp'.calls)].provider = Calling(w)]_vars

\* A request answered by the fallback while another request is in flight
C14_Witness ==
    /\ ChainAnswered
    /\ resp.status = 200
    /\ Len(resp.calls) = 2
    /\ \E w \in Workers : req[w].pc = "fallback"

----------------------------------------------------------------------------
(* Validation of the message *)

\* the message field is absent, or it is the empty string
Missing == {NoMessage, Given(<<>>)}

\* C15: Missing message is rejected without effect.  A chat request without a
\* message, or with the empty string, can always be answered by the rejection,
\* on a supplied id and on a generated one; it never enters the provider
\* chain; its answer is 400 with the error text and no provider call, and the
\* step that answers it changes no conversation, no turn flag and no request.
C15_MissingMessage ==
    /\ [](\A w \in Workers : \A m \in Missing :
            Idle(w) => /\ \A c \in ConvIds : ENABLED ChatRejected(w, c, m)
                       /\ ENABLED ChatRejected(w, NowId, m))
    /\ [][/\ ~ChainEntered(<<>>)
          /\ Answered(<<>>) =>
                /\ resp'.status = 400
                /\ resp'.error = MESSAGE_REQUIRED
                /\ resp'.message = <<>>
                /\ resp'.provider = ""
                /\ resp'.calls = <<>>
                /\ Frame
                /\ UNCHANGED << req, chainCalls, faults >>]_vars

\* a request without conversationId was rejected while a history was stored
\* and another request was in flight
C15_Witness ==
    /\ resp.op = "chat"
    /\ resp.status = 400
    /\ resp.sent = <<>>
    /\ resp.conversation_id \in GeneratedIds
    /\ DOMAIN conversations # {}
    /\ InFlight # {}

----------------------------------------------------------------------------
(* The success flag decides the fallback *)

\* the call request w is blocked in has no credential
NoCredential(w) == ~Configured(Calling(w), req[w].api_key)

\* in this step the call request w was blocked in returned
CallReturned(w) ==
    req[w].pc \in {"primary", "fallback"} /\ req'[w].pc # req[w].pc

\* C16: Fallback is decided from the success flag only.  A call without a
\* credential returns failure, and never success; whatever the fault, a failed
\* first call leaves the request waiting for the other provider and answers
\* nothing; the second call's success gives 200 naming that provider, and a
\* 500 is given only after two failed calls, one of each provider.
C16_SuccessFlagOnly ==
    /\ [](\A w \in InFlight :
            NoCredential(w) =>
               /\ ~ENABLED PrimarySucceeds(w, Replies)
               /\ ~ENABLED FallbackSucceeds(w, Replies)
               /\ req[w].pc = "primary" =>
                      ENABLED PrimaryFails(w, UpstreamErrors, MaxFaults)
               /\ req[w].pc = "fallback" =>
                      ENABLED FallbackFails(w, UpstreamErrors, MaxFaults))
    /\ [](\A w \in InFlight :
            (req[w].pc = "fallback" /\ ~NoCredential(w)) =>
                ENABLED FallbackSucceeds(w, Replies))
    /\ [](TotalFailure =>
            /\ Len(resp.calls) = 2
            /\ ~resp.calls[1].success
            /\ ~resp.calls[2].success
            /\ resp.calls[2].provider = Other(resp.calls[1].provider))
    /\ [][\A w \in Workers :
            CallReturned(w) =>
               IF req'[w].pc = "idle" /\ resp'.status = 200
               THEN /\ ~NoCredential(w)
                    /\ resp'.provider = Calling(w)
               ELSE IF req[w].pc = "primary"
               THEN /\ req'[w].pc = "fallback"
                    /\ req'[w].calls = <<Call(Calling(w), req[w].messages, FALSE)>>
                    /\ resp' = resp
               ELSE /\ req'[w].pc = "idle"
                    /\ resp'.status = 500
                    /\ NoCredential(w) => resp'.error = NoKeyError(Calling(w))]_vars

\* Groq, chosen by the turn flag, had no credential, and Gemini answered
C16_Witness ==
    /\ ProviderAnswered
    /\ ~groq_client
    /\ Len(resp.calls) = 2
    /\ resp.calls[1].provider = Groq
    /\ resp.provider = Gemini

\* without a credential for either provider the answer is 500
C16_WitnessBoth ==
    /\ TotalFailure
    /\ ~groq_client
    /\ resp.error \in {NO_GEMINI_KEY, NO_GROQ_KEY}

----------------------------------------------------------------------------
(* Requests that overlap on one conversation id *)

\* the history GET shows for the id of the last response
Shown == Stored(resp.conversation_id)

\* the history holds the two exchanges at four places
BothKept(h, sentA, replyA, sentB, replyB) ==
    \E i, j, k, l \in 1..Len(h) :
        /\ Cardinality({i, j, k, l}) = 4
        /\ h[i] = Entry("user", sentA)
        /\ h[j] = Entry("assistant", replyA)
        /\ h[k] = Entry("user", sentB)
        /\ h[l] = Entry("assistant", replyB)

\* the history holds an exchange where its request appended it
KeptAt(h, exchange) ==
    /\ exchange.userAt < exchange.replyAt
    /\ exchange.replyAt <= Len(h)
    /\ h[exchange.userAt] = Entry("user", exchange.sent)
    /\ h[exchange.replyAt] = Entry("assistant", exchange.reply)

\* the exchange of the request answered last
Own ==
    [sent    |-> resp.sent,
     reply   |-> resp.message,
     userAt  |-> Len(resp.pre) + 1,
     replyAt |-> Len(Shown)]

\* C17 as stated: when a request is answered by a provider, and another
\* request on its id was answered by a provider while it was in flight, the
\* stored history of the id holds both user messages and both replies,
\* whether or not the id had a stored history when they started.
C17_NoLostExchange ==
    ProviderAnswered =>
        \A p \in resp.peers :
            BothKept(Shown, resp.sent, resp.message,
                     p.exchange.sent, p.exchange.reply)

\* C17 amended: it holds when the two requests got the same list at line 267.
\* The stored history then holds each exchange where its request appended it,
\* at four different places.
C17_SharedListKept ==
    ProviderAnswered =>
        \A p \in resp.peers :
            p.shared =>
                /\ KeptAt(Shown, Own)
                /\ KeptAt(Shown, p.exchange)
                /\ Cardinality({Own.userAt, Own.replyAt,
                                p.exchange.userAt, p.exchange.replyAt}) = 4
                /\ BothKept(Shown, resp.sent, resp.message,
                            p.exchange.sent, p.exchange.reply)

\* two requests on an id with a stored history overlapped and got different
\* replies
C17_Witness ==
    /\ ProviderAnswered
    /\ resp.pre # <<>>
    /\ \E p \in resp.peers :
          /\ p.shared
          /\ p.exchange.reply # resp.message
          /\ p.exchange.userAt > Len(resp.pre)

\* in this step request w was answered by a provider
Completes(w) ==
    /\ req[w].pc # "idle"
    /\ req'[w].pc = "idle"
    /\ resp'.status = 200

\* C18: Deletion is not undone by an in-flight chat.  When a chat request
\* whose id was deleted while it was in flight is answered by a provider, and
\* GET on the id gave 404 before the answer, GET gives 404 after it, and no
\* message stored before the DELETE is shown.
C18_DeleteNotUndone ==
    [][\A w \in Workers, c \in AllIds :
          (/\ Completes(w)
           /\ req[w].conversation_id = c
           /\ req[w].stale
           /\ get_conversation(c).status = 404) =>
              get_conversation(c)'.status = 404]_vars

----------------------------------------------------------------------------
(* The shape of stored histories *)

Roles == {"user", "assistant"}

\* a history starts with a user entry, has an assistant entry, and each of its
\* assistant entries follows a user entry
WellFormed(h) ==
    /\ h # <<>>
    /\ \A i \in 1..Len(h) : h[i].role \in Roles
    /\ h[1].role = "user"
    /\ \A i \in 1..Len(h) :
          h[i].role = "assistant" => i > 1 /\ h[i - 1].role = "user"
    /\ \E i \in 1..Len(h) : h[i].role = "assistant"

\* C19: Stored histories are well formed.  With one request at a time, every
\* conversation in the store, also while a request on it waits for a provider,
\* has a well-formed history, and so has every history GET returns with 200.
C19_WellFormed ==
    /\ \A c \in DOMAIN conversations : WellFormed(Stored(c))
    /\ (resp.op = "get" /\ resp.status = 200) => WellFormed(resp.history)

\* GET returned a history that ends with the user message of a request both
\* providers failed
C19_Witness ==
    /\ resp.op = "get"
    /\ resp.status = 200
    /\ Len(resp.history) = 3
    /\ resp.history[2].role = "assistant"
    /\ resp.history[3].role = "user"

=============================================================================
